---- MODULE Spec2Model ----
(***************************************************************************)
(* Command broker of the Roblox Studio MCP bridge: the CommandQueue class  *)
(* of src/src/command-queue.ts.                                            *)
(*                                                                         *)
(* Time is Date.now() counted in units of half a sweep interval (500 ms),  *)
(* so that a command can be created on a sweep instant or between two of   *)
(* them.  The setInterval timer of startTimeoutSweep fires exactly every   *)
(* SweepPeriod units while it is armed: time does not pass a due tick.     *)
(* Every public method runs to completion (single-threaded Node.js), so    *)
(* each is one action.                                                     *)
(*                                                                         *)
(* dequeue and resolve are called by the GET /poll and POST /result        *)
(* handlers of HttpBridge, which answer in the same step: the answer is    *)
(* recorded with the call.  enqueue is called by executeCommand of         *)
(* src/src/mcp-server.ts, which awaits the promise and returns its tool    *)
(* result as soon as the promise is settled.                               *)
(***************************************************************************)
EXTENDS Integers, Sequences, FiniteSets, TLC

VARIABLES
    now,              \* Date.now()
    waitingQueue,     \* CommandQueue.waitingQueue: PendingCommand[]
    pendingCommands,  \* CommandQueue.pendingCommands: Map<id, PendingCommand>
    connectionState,  \* CommandQueue.connectionState
    timeoutInterval,  \* CommandQueue.timeoutInterval: TRUE = armed, FALSE = null
    nextSweep,        \* instant at which the armed interval timer fires next
    nextId,           \* number of identifiers uuidv4() has handed out, plus one
    promises,         \* the Promises returned by the accepted enqueue calls; a command's
                      \* resolve and reject handles are its field promise
    delivered,        \* history: identifiers returned by dequeue, in call order
    hbCalledAt,       \* history: instant of the latest heartbeat call, -1 if none
    lastOp            \* the latest call and what it returned

vars == <<now, waitingQueue, pendingCommands, connectionState, timeoutInterval,
          nextSweep, nextId, promises, delivered, hbCalledAt, lastOp>>

-----------------------------------------------------------------------------
(* Bounds of the model and configuration of the broker *)

\* QueueConfig.commandTimeoutMs, in time units
CommandTimeout == 3

\* QueueConfig.heartbeatTimeoutMs, in time units
HeartbeatTimeout == 2

\* period of the setInterval of startTimeoutSweep (1000 ms), in time units
SweepPeriod == 2

\* the clock stops here
MaxTime == 7

\* number of commands enqueue may accept
MaxCmds == 2

\* command types the tool handlers enqueue (one of COMMAND_TYPES)
CmdTypes == {"get_children"}

\* the params object a tool handler passes with a command type
ParamsOf(type) == IF type = "get_services" THEN "{}" ELSE "{path}"

\* undefined optional argument of heartbeat
Undefined == "undefined"

PluginVersions == {Undefined, "1.0.0"}

SessionIds == {Undefined, "s1"}

\* the argument pairs heartbeat is called with: the POST /heartbeat body
\* carries both identifiers or neither
HeartbeatArgs ==
    { a \in PluginVersions \X SessionIds : (a[1] = Undefined) <=> (a[2] = Undefined) }

ErrNotConnected == "Roblox Studio plugin is not connected"

ErrUndelivered == "timed out - plugin never picked it up"

ErrUnanswered == "timed out - plugin did not return a result"

ErrShutdown == "MCP server shutting down"

\* CommandResult bodies the plugin may POST for command id
ResultsFor(id) ==
    { [id |-> id, success |-> TRUE,  data |-> "pong", error |-> Undefined],
      [id |-> id, success |-> FALSE, data |-> Undefined, error |-> "boom"] }

NoResult == [id |-> 0, success |-> FALSE, data |-> Undefined, error |-> Undefined]

\* a POST /result body that carries no id (!result.id)
BodyWithoutId == [id |-> 0, success |-> TRUE, data |-> "pong", error |-> Undefined]

\* the bodies the plugin may POST to /result
ResultBodies ==
    UNION { ResultsFor(id) : id \in 1..MaxCmds } \cup {BodyWithoutId}

\* dequeue returned no SerializedCommand
NoView == [id |-> 0, type |-> Undefined, params |-> Undefined]

\* the call was not a heartbeat
NoHeartbeat ==
    [pluginVersion |-> Undefined, studioSessionId |-> Undefined,
     before |-> [connected |-> FALSE, pluginVersion |-> Undefined,
                 studioSessionId |-> Undefined]]

\* the call was not getStats
NoStats == [waitingCount |-> 0, pendingCount |-> 0, connected |-> FALSE]

\* the call was not getConnectionState
NoConn == [connected |-> FALSE, lastHeartbeat |-> 0,
           pluginVersion |-> Undefined, studioSessionId |-> Undefined]

\* the call was not made by an HTTP route: no status, no body
NoHttp == [status |-> 0, body |-> {}]

\* executeCommand has not returned
NoToolResponse == [content |-> <<>>]

\* the call was not shutdown
NoShutdown == [armed |-> FALSE, held |-> 0]

-----------------------------------------------------------------------------
(* Helpers *)

Range(s) == { s[i] : i \in 1..Len(s) }

\* the commands held by the pending map
PendingValues == { pendingCommands[k] : k \in DOMAIN pendingCommands }

\* Map.delete(id)
MapDelete(m, ids) == [k \in DOMAIN m \ ids |-> m[k]]

\* Map.set(id, cmd)
MapSet(m, id, cmd) == [k \in DOMAIN m \cup {id} |-> IF k = id THEN cmd ELSE m[k]]

\* JSON.stringify(data, null, 2) of a string, undefined for undefined
Stringify(data) == IF data = Undefined THEN Undefined ELSE "\"" \o data \o "\""

\* a tool result: a content array of one text item
ToolText(text) == [content |-> <<[type |-> "text", text |-> text]>>]

\* faulty variant: a failure reported by the plugin is thrown to the catch
\* branch
ExecuteCommandTryThrows(result) ==
    IF result.success
    THEN ToolText(Stringify(result.data))
    ELSE ToolText("Bridge error: " \o result.error)

\* executeCommand, try branch: the awaited promise was fulfilled with result
ExecuteCommandTry(result) ==
    IF result.success
    THEN ToolText(Stringify(result.data))
    ELSE ToolText("Error from Studio plugin: " \o result.error)

\* executeCommand, catch branch: the awaited promise was rejected with
\* new Error(message)
ExecuteCommandCatch(message) == ToolText("Bridge error: " \o message)

\* A Promise: settled by the first call of one of its two handles, later
\* calls are ignored by the Promise but counted in calls.  executeCommand
\* awaits it: responses are the tool results executeCommand has returned for
\* it, in order.
NewPromise ==
    [state |-> "pending", result |-> NoResult, error |-> Undefined, calls |-> 0,
     responses |-> <<>>]

\* command.resolve(result)
CallResolve(p, result) ==
    IF p.state = "pending"
    THEN [state |-> "fulfilled", result |-> result, error |-> Undefined,
          calls |-> p.calls + 1,
          responses |-> Append(p.responses, ExecuteCommandTry(result))]
    ELSE [p EXCEPT !.calls = p.calls + 1]

\* command.reject(new Error(msg))
CallReject(p, msg) ==
    IF p.state = "pending"
    THEN [state |-> "rejected", result |-> NoResult, error |-> msg,
          calls |-> p.calls + 1,
          responses |-> Append(p.responses, ExecuteCommandCatch(msg))]
    ELSE [p EXCEPT !.calls = p.calls + 1]

\* cmd.reject(new Error(msg)) for each cmd of the array s, in order
RECURSIVE RejectSeq(_, _, _)
RejectSeq(ps, s, msg) ==
    IF s = <<>> THEN ps
    ELSE RejectSeq([ps EXCEPT ![Head(s).promise] = CallReject(@, msg)], Tail(s), msg)

\* cmd.reject(new Error(msg)) for each cmd of the set cmds
RECURSIVE RejectEach(_, _, _)
RejectEach(ps, cmds, msg) ==
    IF cmds = {} THEN ps
    ELSE LET c == CHOOSE x \in cmds : TRUE
         IN  RejectEach([ps EXCEPT ![c.promise] = CallReject(@, msg)], cmds \ {c}, msg)

\* a call: the method, the command identifier it concerns (0 if none), the
\* CommandResult it was given (NoResult if none), and what it returned; for
\* dequeue the SerializedCommand returned (view), for heartbeat its arguments
\* and what it overwrote (hb: isConnected() and the identifiers stored just
\* before the call), for getStats and
\* getConnectionState the object returned (stats, conn); for a call made by
\* an HTTP route the answer of the route (http), and for an enqueue that
\* returned a rejected promise the tool result executeCommand made of it
\* (tool); for shutdown what the call found (found: whether the timer was
\* armed and how many commands the two collections held)
Op(op, id, ok, val) ==
    [op |-> op, id |-> id, ok |-> ok, val |-> val, arg |-> NoResult,
     view |-> NoView, hb |-> NoHeartbeat, stats |-> NoStats, conn |-> NoConn,
     http |-> NoHttp, tool |-> NoToolResponse, found |-> NoShutdown]

\* the SerializedCommand dequeue builds from a command: id, type and params
View(command) == [id |-> command.id, type |-> command.type, params |-> command.params]

\* GET /poll: the answer to what dequeue() returned, 200 with the command as
\* JSON body or 204 without a body
PollResponse(command) ==
    IF command # NoView
    THEN [status |-> 200, body |-> {command}]
    ELSE [status |-> 204, body |-> {}]

\* faulty variant: an unmatched result is acknowledged like a matched one
ResultResponseAlwaysOk(resolved) == [status |-> 200, body |-> {[status |-> "ok"]}]

\* POST /result: the answer to what resolve(result) returned
ResultResponse(resolved) ==
    IF resolved
    THEN [status |-> 200, body |-> {[status |-> "ok"]}]
    ELSE [status |-> 404,
          body |-> {[error |-> "Unknown command id - may have already timed out"]}]

\* POST /result: the answer to a body without id
MissingIdResponse ==
    [status |-> 400, body |-> {[error |-> "Missing command id in result body"]}]

-----------------------------------------------------------------------------
(* isConnected *)

\* faulty variant: the window closes one unit late (<= for <)
IsConnectedInclusive(cs, t) ==
    IF ~cs.connected THEN FALSE
    ELSE t - cs.lastHeartbeat <= HeartbeatTimeout

IsConnectedAt(cs, t) ==
    IF ~cs.connected THEN FALSE
    ELSE t - cs.lastHeartbeat < HeartbeatTimeout

IsConnected == IsConnectedAt(connectionState, now)

\* faulty variant: a command expires at its timeout (>= for >)
ExpiredAtTimeout(cmd, t) == t - cmd.createdAt >= CommandTimeout

\* now - cmd.createdAt > this.config.commandTimeoutMs
Expired(cmd, t) == t - cmd.createdAt > CommandTimeout

\* this.waitingQueue.filter(cmd => !(now - cmd.createdAt > commandTimeoutMs)):
\* the commands that are not expired at t, in their order
RECURSIVE FilterLive(_, _)
FilterLive(s, t) ==
    IF s = <<>> THEN <<>>
    ELSE IF Expired(Head(s), t) THEN FilterLive(Tail(s), t)
         ELSE <<Head(s)>> \o FilterLive(Tail(s), t)

-----------------------------------------------------------------------------
\* faulty variant: the broker starts out connected
InitConnected ==
    /\ now = 0
    /\ waitingQueue = <<>>
    /\ pendingCommands = <<>>
    /\ connectionState = [connected |-> TRUE, lastHeartbeat |-> 0,
                          pluginVersion |-> Undefined, studioSessionId |-> Undefined]
    /\ timeoutInterval = TRUE
    /\ nextSweep = SweepPeriod
    /\ nextId = 1
    /\ promises = <<>>
    /\ delivered = <<>>
    /\ hbCalledAt = -1
    /\ lastOp = Op("new", 0, TRUE, "void")

Init ==
    /\ now = 0
    /\ waitingQueue = <<>>
    /\ pendingCommands = <<>>
    /\ connectionState = [connected |-> FALSE, lastHeartbeat |-> 0,
                          pluginVersion |-> Undefined, studioSessionId |-> Undefined]
    /\ timeoutInterval = TRUE
    /\ nextSweep = SweepPeriod
    /\ nextId = 1
    /\ promises = <<>>
    /\ delivered = <<>>
    /\ hbCalledAt = -1
    /\ lastOp = Op("new", 0, TRUE, "void")

\* The clock advances by one unit, unless the armed timer is due.
Tick ==
    /\ now < MaxTime
    /\ ~(timeoutInterval /\ nextSweep = now)
    /\ now' = now + 1
    /\ lastOp' = Op("tick", 0, TRUE, "void")
    /\ UNCHANGED <<waitingQueue, pendingCommands, connectionState, timeoutInterval,
                   nextSweep, nextId, promises, delivered, hbCalledAt>>

\* enqueue(type, params) while isConnected() is false
EnqueueRejected(type) ==
    /\ ~IsConnected
    /\ lastOp' = [Op("enqueue", 0, FALSE, ErrNotConnected) EXCEPT
                     !.tool = ExecuteCommandCatch(ErrNotConnected)]
    /\ UNCHANGED <<now, waitingQueue, pendingCommands, connectionState,
                   timeoutInterval, nextSweep, nextId, promises, delivered, hbCalledAt>>

\* faulty variant: the new command goes to the head of the queue (unshift)
EnqueueAtHead(type) ==
    /\ IsConnected
    /\ nextId <= MaxCmds
    /\ now + CommandTimeout + SweepPeriod <= MaxTime
    /\ LET command == [id |-> nextId, type |-> type, params |-> ParamsOf(type),
                       promise |-> nextId, createdAt |-> now]
       IN  /\ waitingQueue' = <<command>> \o waitingQueue
           /\ promises' = MapSet(promises, nextId, NewPromise)
           /\ nextId' = nextId + 1
           /\ lastOp' = Op("enqueue", command.id, TRUE, "pending")
    /\ UNCHANGED <<now, pendingCommands, connectionState, timeoutInterval,
                   nextSweep, delivered, hbCalledAt>>

\* enqueue(type, params) while isConnected() is true
EnqueueAccepted(type) ==
    /\ IsConnected
    /\ nextId <= MaxCmds
    /\ now + CommandTimeout + SweepPeriod <= MaxTime
    /\ LET command == [id |-> nextId, type |-> type, params |-> ParamsOf(type),
                       promise |-> nextId, createdAt |-> now]
       IN  /\ waitingQueue' = Append(waitingQueue, command)
           /\ promises' = MapSet(promises, nextId, NewPromise)
           /\ nextId' = nextId + 1
           /\ lastOp' = Op("enqueue", command.id, TRUE, "pending")
    /\ UNCHANGED <<now, pendingCommands, connectionState, timeoutInterval,
                   nextSweep, delivered, hbCalledAt>>

\* faulty variant: enqueue without the isConnected() check
EnqueueNoCheck(type) ==
    /\ nextId <= MaxCmds
    /\ now + CommandTimeout + SweepPeriod <= MaxTime
    /\ LET command == [id |-> nextId, type |-> type, params |-> ParamsOf(type),
                       promise |-> nextId, createdAt |-> now]
       IN  /\ waitingQueue' = Append(waitingQueue, command)
           /\ promises' = MapSet(promises, nextId, NewPromise)
           /\ nextId' = nextId + 1
           /\ lastOp' = Op("enqueue", command.id, TRUE, "pending")
    /\ UNCHANGED <<now, pendingCommands, connectionState, timeoutInterval,
                   nextSweep, delivered, hbCalledAt>>

Enqueue(type) == EnqueueRejected(type) \/ EnqueueAccepted(type)

\* faulty variant: dequeue returns the PendingCommand itself
DequeueLeaksCommand ==
    IF waitingQueue = <<>>
    THEN /\ lastOp' = [Op("dequeue", 0, FALSE, "null") EXCEPT !.http = PollResponse(NoView)]
         /\ UNCHANGED <<now, waitingQueue, pendingCommands, connectionState,
                        timeoutInterval, nextSweep, nextId, promises, delivered,
                        hbCalledAt>>
    ELSE LET command == Head(waitingQueue)
         IN  /\ waitingQueue' = Tail(waitingQueue)
             /\ pendingCommands' = MapSet(pendingCommands, command.id, command)
             /\ delivered' = Append(delivered, command.id)
             /\ lastOp' = [Op("dequeue", command.id, TRUE, command.type)
                             EXCEPT !.view = command, !.http = PollResponse(command)]
             /\ UNCHANGED <<now, connectionState, timeoutInterval, nextSweep,
                            nextId, promises, hbCalledAt>>

\* faulty variant: dequeue reads the head without removing it
DequeuePeek ==
    IF waitingQueue = <<>>
    THEN /\ lastOp' = [Op("dequeue", 0, FALSE, "null") EXCEPT !.http = PollResponse(NoView)]
         /\ UNCHANGED <<now, waitingQueue, pendingCommands, connectionState,
                        timeoutInterval, nextSweep, nextId, promises, delivered,
                        hbCalledAt>>
    ELSE LET command == Head(waitingQueue)
         IN  /\ pendingCommands' = MapSet(pendingCommands, command.id, command)
             /\ delivered' = Append(delivered, command.id)
             /\ lastOp' = [Op("dequeue", command.id, TRUE, command.type)
                             EXCEPT !.view = View(command),
                                    !.http = PollResponse(View(command))]
             /\ UNCHANGED <<now, waitingQueue, connectionState, timeoutInterval,
                            nextSweep, nextId, promises, hbCalledAt>>

\* faulty variant: dequeue takes the newest command (pop for shift)
DequeueLifo ==
    IF waitingQueue = <<>>
    THEN /\ lastOp' = [Op("dequeue", 0, FALSE, "null") EXCEPT !.http = PollResponse(NoView)]
         /\ UNCHANGED <<now, waitingQueue, pendingCommands, connectionState,
                        timeoutInterval, nextSweep, nextId, promises, delivered,
                        hbCalledAt>>
    ELSE LET command == waitingQueue[Len(waitingQueue)]
         IN  /\ waitingQueue' = SubSeq(waitingQueue, 1, Len(waitingQueue) - 1)
             /\ pendingCommands' = MapSet(pendingCommands, command.id, command)
             /\ delivered' = Append(delivered, command.id)
             /\ lastOp' = [Op("dequeue", command.id, TRUE, command.type)
                             EXCEPT !.view = View(command),
                                    !.http = PollResponse(View(command))]
             /\ UNCHANGED <<now, connectionState, timeoutInterval, nextSweep,
                            nextId, promises, hbCalledAt>>

\* faulty variant: delivery restarts the timeout clock of the command
DequeueRestartsClock ==
    IF waitingQueue = <<>>
    THEN /\ lastOp' = [Op("dequeue", 0, FALSE, "null") EXCEPT !.http = PollResponse(NoView)]
         /\ UNCHANGED <<now, waitingQueue, pendingCommands, connectionState,
                        timeoutInterval, nextSweep, nextId, promises, delivered,
                        hbCalledAt>>
    ELSE LET command == [Head(waitingQueue) EXCEPT !.createdAt = now]
         IN  /\ waitingQueue' = Tail(waitingQueue)
             /\ pendingCommands' = MapSet(pendingCommands, command.id, command)
             /\ delivered' = Append(delivered, command.id)
             /\ lastOp' = [Op("dequeue", command.id, TRUE, command.type)
                             EXCEPT !.view = View(command),
                                    !.http = PollResponse(View(command))]
             /\ UNCHANGED <<now, connectionState, timeoutInterval, nextSweep,
                            nextId, promises, hbCalledAt>>

\* faulty variant: dequeue hands out nothing once the heartbeat has lapsed
DequeueOnlyWhenConnected ==
    IF waitingQueue = <<>> \/ ~IsConnected
    THEN /\ lastOp' = [Op("dequeue", 0, FALSE, "null") EXCEPT !.http = PollResponse(NoView)]
         /\ UNCHANGED <<now, waitingQueue, pendingCommands, connectionState,
                        timeoutInterval, nextSweep, nextId, promises, delivered,
                        hbCalledAt>>
    ELSE LET command == Head(waitingQueue)
         IN  /\ waitingQueue' = Tail(waitingQueue)
             /\ pendingCommands' = MapSet(pendingCommands, command.id, command)
             /\ delivered' = Append(delivered, command.id)
             /\ lastOp' = [Op("dequeue", command.id, TRUE, command.type)
                             EXCEPT !.view = View(command),
                                    !.http = PollResponse(View(command))]
             /\ UNCHANGED <<now, connectionState, timeoutInterval, nextSweep,
                            nextId, promises, hbCalledAt>>

\* dequeue()
Dequeue ==
    IF waitingQueue = <<>>
    THEN /\ lastOp' = [Op("dequeue", 0, FALSE, "null") EXCEPT !.http = PollResponse(NoView)]
         /\ UNCHANGED <<now, waitingQueue, pendingCommands, connectionState,
                        timeoutInterval, nextSweep, nextId, promises, delivered,
                        hbCalledAt>>
    ELSE LET command == Head(waitingQueue)
         IN  /\ waitingQueue' = Tail(waitingQueue)
             /\ pendingCommands' = MapSet(pendingCommands, command.id, command)
             /\ delivered' = Append(delivered, command.id)
             /\ lastOp' = [Op("dequeue", command.id, TRUE, command.type)
                             EXCEPT !.view = View(command),
                                    !.http = PollResponse(View(command))]
             /\ UNCHANGED <<now, connectionState, timeoutInterval, nextSweep,
                            nextId, promises, hbCalledAt>>

\* faulty variant: resolve leaves the command in the pending map
ResolveKeepsPending(result) ==
    IF result.id \notin DOMAIN pendingCommands
    THEN /\ lastOp' = [Op("resolve", result.id, FALSE, "false") EXCEPT
                         !.arg = result, !.http = ResultResponse(FALSE)]
         /\ UNCHANGED <<now, waitingQueue, pendingCommands, connectionState,
                        timeoutInterval, nextSweep, nextId, promises, delivered,
                        hbCalledAt>>
    ELSE LET command == pendingCommands[result.id]
         IN  /\ promises' = [promises EXCEPT ![command.promise] = CallResolve(@, result)]
             /\ lastOp' = [Op("resolve", result.id, TRUE, "true") EXCEPT
                             !.arg = result, !.http = ResultResponse(TRUE)]
             /\ UNCHANGED <<now, waitingQueue, pendingCommands, connectionState,
                            timeoutInterval, nextSweep, nextId, delivered, hbCalledAt>>

\* faulty variant: resolve also matches a command that is still waiting
ResolveAlsoWaiting(result) ==
    IF result.id \in DOMAIN pendingCommands
    THEN LET command == pendingCommands[result.id]
         IN  /\ pendingCommands' = MapDelete(pendingCommands, {result.id})
             /\ promises' = [promises EXCEPT ![command.promise] = CallResolve(@, result)]
             /\ lastOp' = [Op("resolve", result.id, TRUE, "true") EXCEPT
                             !.arg = result, !.http = ResultResponse(TRUE)]
             /\ UNCHANGED <<now, waitingQueue, connectionState, timeoutInterval,
                            nextSweep, nextId, delivered, hbCalledAt>>
    ELSE IF \E i \in 1..Len(waitingQueue) : waitingQueue[i].id = result.id
    THEN LET i == CHOOSE j \in 1..Len(waitingQueue) : waitingQueue[j].id = result.id
             command == waitingQueue[i]
         IN  /\ waitingQueue' = SubSeq(waitingQueue, 1, i - 1)
                                   \o SubSeq(waitingQueue, i + 1, Len(waitingQueue))
             /\ promises' = [promises EXCEPT ![command.promise] = CallResolve(@, result)]
             /\ lastOp' = [Op("resolve", result.id, TRUE, "true") EXCEPT
                             !.arg = result, !.http = ResultResponse(TRUE)]
             /\ UNCHANGED <<now, pendingCommands, connectionState, timeoutInterval,
                            nextSweep, nextId, delivered, hbCalledAt>>
    ELSE /\ lastOp' = [Op("resolve", result.id, FALSE, "false") EXCEPT
                         !.arg = result, !.http = ResultResponse(FALSE)]
         /\ UNCHANGED <<now, waitingQueue, pendingCommands, connectionState,
                        timeoutInterval, nextSweep, nextId, promises, delivered,
                        hbCalledAt>>

\* faulty variant: a result with success = false goes to the reject handle
ResolveRejectsFailures(result) ==
    IF result.id \notin DOMAIN pendingCommands
    THEN /\ lastOp' = [Op("resolve", result.id, FALSE, "false") EXCEPT
                         !.arg = result, !.http = ResultResponse(FALSE)]
         /\ UNCHANGED <<now, waitingQueue, pendingCommands, connectionState,
                        timeoutInterval, nextSweep, nextId, promises, delivered,
                        hbCalledAt>>
    ELSE LET command == pendingCommands[result.id]
         IN  /\ pendingCommands' = MapDelete(pendingCommands, {result.id})
             /\ promises' = [promises EXCEPT ![command.promise] =
                                IF result.success THEN CallResolve(@, result)
                                ELSE CallReject(@, result.error)]
             /\ lastOp' = [Op("resolve", result.id, TRUE, "true") EXCEPT
                             !.arg = result, !.http = ResultResponse(TRUE)]
             /\ UNCHANGED <<now, waitingQueue, connectionState, timeoutInterval,
                            nextSweep, nextId, delivered, hbCalledAt>>

\* faulty variant: resolve accepts results in delivery order only
ResolveOldestOnly(result) ==
    IF \/ result.id \notin DOMAIN pendingCommands
       \/ \E k \in DOMAIN pendingCommands : k < result.id
    THEN /\ lastOp' = [Op("resolve", result.id, FALSE, "false") EXCEPT
                         !.arg = result, !.http = ResultResponse(FALSE)]
         /\ UNCHANGED <<now, waitingQueue, pendingCommands, connectionState,
                        timeoutInterval, nextSweep, nextId, promises, delivered,
                        hbCalledAt>>
    ELSE LET command == pendingCommands[result.id]
         IN  /\ pendingCommands' = MapDelete(pendingCommands, {result.id})
             /\ promises' = [promises EXCEPT ![command.promise] = CallResolve(@, result)]
             /\ lastOp' = [Op("resolve", result.id, TRUE, "true") EXCEPT
                             !.arg = result, !.http = ResultResponse(TRUE)]
             /\ UNCHANGED <<now, waitingQueue, connectionState, timeoutInterval,
                            nextSweep, nextId, delivered, hbCalledAt>>

\* resolve(result)
Resolve(result) ==
    IF result.id \notin DOMAIN pendingCommands
    THEN /\ lastOp' = [Op("resolve", result.id, FALSE, "false") EXCEPT
                         !.arg = result, !.http = ResultResponse(FALSE)]
         /\ UNCHANGED <<now, waitingQueue, pendingCommands, connectionState,
                        timeoutInterval, nextSweep, nextId, promises, delivered,
                        hbCalledAt>>
    ELSE LET command == pendingCommands[result.id]
         IN  /\ pendingCommands' = MapDelete(pendingCommands, {result.id})
             /\ promises' = [promises EXCEPT ![command.promise] = CallResolve(@, result)]
             /\ lastOp' = [Op("resolve", result.id, TRUE, "true") EXCEPT
                             !.arg = result, !.http = ResultResponse(TRUE)]
             /\ UNCHANGED <<now, waitingQueue, connectionState, timeoutInterval,
                            nextSweep, nextId, delivered, hbCalledAt>>

\* the POST /result handler with request body result: a body without id is
\* answered 400 and resolve is not called
PostResult(result) ==
    IF result.id = BodyWithoutId.id
    THEN /\ lastOp' = [Op("POST /result", 0, FALSE, "void") EXCEPT
                          !.arg = result, !.http = MissingIdResponse]
         /\ UNCHANGED <<now, waitingQueue, pendingCommands,
                        connectionState, timeoutInterval, nextSweep, nextId,
                        promises, delivered, hbCalledAt>>
    ELSE Resolve(result)

\* faulty variant: an omitted identifier keeps the stored one
HeartbeatMerge(pluginVersion, studioSessionId) ==
    /\ connectionState' =
           [connected |-> TRUE, lastHeartbeat |-> now,
            pluginVersion |-> IF pluginVersion = Undefined
                              THEN connectionState.pluginVersion ELSE pluginVersion,
            studioSessionId |-> IF studioSessionId = Undefined
                                THEN connectionState.studioSessionId
                                ELSE studioSessionId]
    /\ hbCalledAt' = now
    /\ lastOp' = [Op("heartbeat", 0, TRUE, "void") EXCEPT
                     !.hb = [pluginVersion |-> pluginVersion,
                             studioSessionId |-> studioSessionId,
                             before |->
                                 [connected |-> IsConnected,
                                  pluginVersion |-> connectionState.pluginVersion,
                                  studioSessionId |->
                                      connectionState.studioSessionId]]]
    /\ UNCHANGED <<now, waitingQueue, pendingCommands, timeoutInterval, nextSweep,
                   nextId, promises, delivered>>

\* heartbeat(pluginVersion, studioSessionId)
Heartbeat(pluginVersion, studioSessionId) ==
    /\ connectionState' = [connected |-> TRUE, lastHeartbeat |-> now,
                           pluginVersion |-> pluginVersion,
                           studioSessionId |-> studioSessionId]
    /\ hbCalledAt' = now
    /\ lastOp' = [Op("heartbeat", 0, TRUE, "void") EXCEPT
                     !.hb = [pluginVersion |-> pluginVersion,
                             studioSessionId |-> studioSessionId,
                             before |->
                                 [connected |-> IsConnected,
                                  pluginVersion |-> connectionState.pluginVersion,
                                  studioSessionId |->
                                      connectionState.studioSessionId]]]
    /\ UNCHANGED <<now, waitingQueue, pendingCommands, timeoutInterval, nextSweep,
                   nextId, promises, delivered>>

\* a caller asks isConnected()
CallIsConnected ==
    /\ lastOp' = Op("isConnected", 0, IsConnected, "void")
    /\ UNCHANGED <<now, waitingQueue, pendingCommands, connectionState,
                   timeoutInterval, nextSweep, nextId, promises, delivered, hbCalledAt>>

\* faulty variant: getConnectionState stores the liveness it computed
GetConnectionStateWritesBack ==
    /\ lastOp' = [Op("getConnectionState", 0, TRUE, "void") EXCEPT
                     !.conn = [connectionState EXCEPT !.connected = IsConnected]]
    /\ connectionState' = [connectionState EXCEPT !.connected = IsConnected]
    /\ UNCHANGED <<now, waitingQueue, pendingCommands, timeoutInterval, nextSweep,
                   nextId, promises, delivered, hbCalledAt>>

\* getConnectionState()
GetConnectionState ==
    /\ lastOp' = [Op("getConnectionState", 0, TRUE, "void") EXCEPT
                     !.conn = [connectionState EXCEPT !.connected = IsConnected]]
    /\ UNCHANGED <<now, waitingQueue, pendingCommands, connectionState,
                   timeoutInterval, nextSweep, nextId, promises, delivered, hbCalledAt>>

\* faulty variant: getStats reports the stored connected flag
GetStatsStoredFlag ==
    /\ lastOp' = [Op("getStats", 0, TRUE, "void") EXCEPT
                     !.stats = [waitingCount |-> Len(waitingQueue),
                                pendingCount |-> Cardinality(DOMAIN pendingCommands),
                                connected |-> connectionState.connected]]
    /\ UNCHANGED <<now, waitingQueue, pendingCommands, connectionState,
                   timeoutInterval, nextSweep, nextId, promises, delivered, hbCalledAt>>

\* faulty variant: pendingCount counts every command dequeue ever returned
GetStatsCountsDelivered ==
    /\ lastOp' = [Op("getStats", 0, TRUE, "void") EXCEPT
                     !.stats = [waitingCount |-> Len(waitingQueue),
                                pendingCount |-> Len(delivered),
                                connected |-> IsConnected]]
    /\ UNCHANGED <<now, waitingQueue, pendingCommands, connectionState,
                   timeoutInterval, nextSweep, nextId, promises, delivered, hbCalledAt>>

\* getStats()
GetStats ==
    /\ lastOp' = [Op("getStats", 0, TRUE, "void") EXCEPT
                     !.stats = [waitingCount |-> Len(waitingQueue),
                                pendingCount |-> Cardinality(DOMAIN pendingCommands),
                                connected |-> IsConnected]]
    /\ UNCHANGED <<now, waitingQueue, pendingCommands, connectionState,
                   timeoutInterval, nextSweep, nextId, promises, delivered, hbCalledAt>>

\* faulty variant: the two timeout messages are exchanged
SweepSwappedMessages ==
    /\ timeoutInterval
    /\ nextSweep = now
    /\ LET expiredWaiting == SelectSeq(waitingQueue, LAMBDA cmd : Expired(cmd, now))
           afterWaiting == RejectSeq(promises, expiredWaiting, ErrUnanswered)
           expiredPending == { cmd \in PendingValues : Expired(cmd, now) }
       IN  /\ waitingQueue' = FilterLive(waitingQueue, now)
           /\ pendingCommands' =
                  MapDelete(pendingCommands, { cmd.id : cmd \in expiredPending })
           /\ promises' = RejectEach(afterWaiting, expiredPending, ErrUndelivered)
    /\ nextSweep' = nextSweep + SweepPeriod
    /\ lastOp' = Op("sweep", 0, TRUE, "void")
    /\ UNCHANGED <<now, connectionState, timeoutInterval, nextId, delivered,
                   hbCalledAt>>

\* faulty variant: the tick leaves the waiting queue alone once the plugin
\* is no longer connected
SweepOnlyWhenConnected ==
    /\ timeoutInterval
    /\ nextSweep = now
    /\ LET expiredWaiting ==
               IF IsConnected
               THEN SelectSeq(waitingQueue, LAMBDA cmd : Expired(cmd, now))
               ELSE <<>>
           afterWaiting == RejectSeq(promises, expiredWaiting, ErrUndelivered)
           expiredPending == { cmd \in PendingValues : Expired(cmd, now) }
       IN  /\ waitingQueue' = IF IsConnected THEN FilterLive(waitingQueue, now)
                                             ELSE waitingQueue
           /\ pendingCommands' =
                  MapDelete(pendingCommands, { cmd.id : cmd \in expiredPending })
           /\ promises' = RejectEach(afterWaiting, expiredPending, ErrUnanswered)
    /\ nextSweep' = nextSweep + SweepPeriod
    /\ lastOp' = Op("sweep", 0, TRUE, "void")
    /\ UNCHANGED <<now, connectionState, timeoutInterval, nextId, delivered,
                   hbCalledAt>>

\* faulty variant: the tick sweeps the waiting queue only
SweepWaitingOnly ==
    /\ timeoutInterval
    /\ nextSweep = now
    /\ LET expiredWaiting == SelectSeq(waitingQueue, LAMBDA cmd : Expired(cmd, now))
       IN  /\ waitingQueue' = FilterLive(waitingQueue, now)
           /\ promises' = RejectSeq(promises, expiredWaiting, ErrUndelivered)
    /\ nextSweep' = nextSweep + SweepPeriod
    /\ lastOp' = Op("sweep", 0, TRUE, "void")
    /\ UNCHANGED <<now, pendingCommands, connectionState, timeoutInterval, nextId,
                   delivered, hbCalledAt>>

\* one firing of the setInterval callback of startTimeoutSweep
Sweep ==
    /\ timeoutInterval
    /\ nextSweep = now
    /\ LET expiredWaiting == SelectSeq(waitingQueue, LAMBDA cmd : Expired(cmd, now))
           afterWaiting == RejectSeq(promises, expiredWaiting, ErrUndelivered)
           expiredPending == { cmd \in PendingValues : Expired(cmd, now) }
       IN  /\ waitingQueue' = FilterLive(waitingQueue, now)
           /\ pendingCommands' =
                  MapDelete(pendingCommands, { cmd.id : cmd \in expiredPending })
           /\ promises' = RejectEach(afterWaiting, expiredPending, ErrUnanswered)
    /\ nextSweep' = nextSweep + SweepPeriod
    /\ lastOp' = Op("sweep", 0, TRUE, "void")
    /\ UNCHANGED <<now, connectionState, timeoutInterval, nextId, delivered,
                   hbCalledAt>>

\* faulty variant: shutdown forgets clearInterval
ShutdownKeepsTimer ==
    /\ promises' = RejectEach(RejectSeq(promises, waitingQueue, ErrShutdown),
                              PendingValues, ErrShutdown)
    /\ waitingQueue' = <<>>
    /\ pendingCommands' = <<>>
    /\ lastOp' = [Op("shutdown", 0, TRUE, "void") EXCEPT
                     !.found = [armed |-> timeoutInterval,
                                held |-> Len(waitingQueue)
                                           + Cardinality(DOMAIN pendingCommands)]]
    /\ UNCHANGED <<now, connectionState, timeoutInterval, nextSweep, nextId,
                   delivered, hbCalledAt>>

\* faulty variant: a shutdown that finds the timer cleared arms it again
ShutdownTogglesTimer ==
    /\ timeoutInterval' = ~timeoutInterval
    /\ nextSweep' = IF timeoutInterval THEN 0 ELSE now + SweepPeriod
    /\ promises' = RejectEach(RejectSeq(promises, waitingQueue, ErrShutdown),
                              PendingValues, ErrShutdown)
    /\ waitingQueue' = <<>>
    /\ pendingCommands' = <<>>
    /\ lastOp' = [Op("shutdown", 0, TRUE, "void") EXCEPT
                     !.found = [armed |-> timeoutInterval,
                                held |-> Len(waitingQueue)
                                           + Cardinality(DOMAIN pendingCommands)]]
    /\ UNCHANGED <<now, connectionState, nextId, delivered, hbCalledAt>>

\* shutdown()
Shutdown ==
    /\ timeoutInterval' = FALSE
    /\ nextSweep' = 0
    /\ promises' = RejectEach(RejectSeq(promises, waitingQueue, ErrShutdown),
                              PendingValues, ErrShutdown)
    /\ waitingQueue' = <<>>
    /\ pendingCommands' = <<>>
    /\ lastOp' = [Op("shutdown", 0, TRUE, "void") EXCEPT
                     !.found = [armed |-> timeoutInterval,
                                held |-> Len(waitingQueue)
                                           + Cardinality(DOMAIN pendingCommands)]]
    /\ UNCHANGED <<now, connectionState, nextId, delivered, hbCalledAt>>

Next ==
    \/ Tick
    \/ \E type \in CmdTypes : Enqueue(type)
    \/ Dequeue
    \/ \E result \in ResultBodies : PostResult(result)
    \/ \E a \in HeartbeatArgs : Heartbeat(a[1], a[2])
    \/ CallIsConnected
    \/ GetConnectionState
    \/ GetStats
    \/ Sweep
    \/ Shutdown

Spec == Init /\ [][Next]_vars

\* The clock advances and the armed timer fires when it is due.
LiveSpec == Spec /\ WF_vars(Tick) /\ WF_vars(Sweep)

-----------------------------------------------------------------------------
(* Properties *)

\* the commands currently held by either collection
Held == Range(waitingQueue) \cup PendingValues

\* number of entries of the waiting queue that carry identifier id
WaitingCount(id) == Cardinality({ i \in 1..Len(waitingQueue) : waitingQueue[i].id = id })

\* number of entries of the pending map that carry identifier id
PendingCount(id) ==
    Cardinality({ k \in DOMAIN pendingCommands : pendingCommands[k].id = id })

\* a handle of the promise of command id has been called
Settled(id) == id \in DOMAIN promises /\ promises[id].calls >= 1

TimeoutErrors == {ErrUndelivered, ErrUnanswered}

\* C1: in every execution the completion handles of a command are called at
\* most once in total, whatever resolve, sweep ticks and shutdown follow.
C1_FiresAtMostOnce == \A id \in DOMAIN promises : promises[id].calls <= 1

\* a command failed by a sweep tick, and a resolve for it arriving afterwards
C1_Witness ==
    \E id \in DOMAIN promises :
        /\ promises[id].calls = 1
        /\ promises[id].error \in TimeoutErrors
        /\ lastOp.op = "resolve"
        /\ lastOp.id = id

\* C2: every command accepted by enqueue is eventually settled, assuming only
\* that time advances and the sweep timer fires whenever it is armed.
C2_AcceptedEventuallySettled ==
    \A id \in 1..MaxCmds : (id \in DOMAIN promises) ~> Settled(id)

\* C3: every unsettled command is in exactly one of the waiting queue and the
\* pending map, once; every settled command is in neither.
C3_ExactlyOnePlace ==
    \A id \in DOMAIN promises :
        IF promises[id].calls = 0
        THEN WaitingCount(id) + PendingCount(id) = 1
        ELSE WaitingCount(id) + PendingCount(id) = 0

\* one command delivered and unanswered while another has been settled
C3_Witness ==
    \E a, b \in DOMAIN promises :
        /\ PendingCount(a) = 1
        /\ promises[a].calls = 0
        /\ promises[b].calls = 1

\* C4: dequeue returns commands in the order enqueue accepted them
\* (identifiers are handed out in that order): the identifiers returned by
\* successive dequeue calls increase, and every command still waiting was
\* enqueued after every command already delivered, in queue order.
C4_Fifo ==
    /\ \A i, j \in 1..Len(delivered) : i < j => delivered[i] < delivered[j]
    /\ \A i, j \in 1..Len(waitingQueue) : i < j => waitingQueue[i].id < waitingQueue[j].id
    /\ \A i \in 1..Len(delivered) : \A j \in 1..Len(waitingQueue) :
           delivered[i] < waitingQueue[j].id

\* two commands delivered, the second dequeue call being the latest call
C4_Witness ==
    /\ Len(delivered) = 2
    /\ lastOp.op = "dequeue"
    /\ lastOp.id = delivered[2]

\* C5: enqueue while isConnected() is false returns an already rejected
\* promise carrying the not-connected error, at the instant of the call, and
\* leaves the waiting queue, the pending map and the liveness state unchanged.
C5_EnqueueNotConnected ==
    [][ (lastOp'.op = "enqueue" /\ ~IsConnected) =>
            /\ ~lastOp'.ok
            /\ lastOp'.val = ErrNotConnected
            /\ UNCHANGED <<now, waitingQueue, pendingCommands, connectionState,
                           promises, nextId>> ]_vars

\* a rejected enqueue while a command waits and the heartbeat has lapsed
C5_Witness ==
    /\ lastOp.op = "enqueue"
    /\ ~lastOp.ok
    /\ lastOp.val = ErrNotConnected
    /\ connectionState.connected
    /\ waitingQueue # <<>>

\* C6: resolve with an identifier that is not in the pending map returns false
\* and changes nothing: both collections keep their contents and no handle
\* is called.
C6_ResolveUnknown ==
    [][ (lastOp'.op = "resolve" /\ lastOp'.id \notin DOMAIN pendingCommands) =>
            /\ ~lastOp'.ok
            /\ UNCHANGED <<waitingQueue, pendingCommands, promises,
                           connectionState, timeoutInterval>> ]_vars

\* a stale result: resolve returned false for a command that had timed out
\* after delivery, while another command is held
C6_Witness ==
    /\ lastOp.op = "resolve"
    /\ ~lastOp.ok
    /\ lastOp.id \in DOMAIN promises
    /\ promises[lastOp.id].error = ErrUnanswered
    /\ Held # {}

C8_HeartbeatWindow ==
    lastOp.op = "isConnected" =>
        (lastOp.ok <=> (hbCalledAt >= 0 /\ now - hbCalledAt < HeartbeatTimeout))

\* isConnected() answered false exactly heartbeatTimeout after the heartbeat
C8_Witness ==
    /\ lastOp.op = "isConnected"
    /\ ~lastOp.ok
    /\ hbCalledAt >= 0
    /\ now - hbCalledAt = HeartbeatTimeout

\* C9 as stated: after a sweep tick no command of age >= commandTimeout is
\* left in either collection.
C9_SweepRemovesAtTimeout ==
    lastOp.op = "sweep" => \A cmd \in Held : now - cmd.createdAt < CommandTimeout

\* C9 amended: a sweep tick removes and rejects, with a timeout error, every
\* command of either collection whose age is strictly greater than
\* commandTimeout; a command whose age equals commandTimeout stays in place.
C9_SweepRemovesPastTimeout ==
    [][ lastOp'.op = "sweep" =>
            /\ \A cmd \in Held :
                   now - cmd.createdAt > CommandTimeout =>
                       /\ cmd \notin Range(waitingQueue')
                       /\ cmd \notin PendingValues'
                       /\ promises'[cmd.promise].state = "rejected"
                       /\ promises'[cmd.promise].error \in TimeoutErrors
            /\ \A cmd \in Range(waitingQueue) :
                   now - cmd.createdAt = CommandTimeout => cmd \in Range(waitingQueue')
            /\ \A cmd \in PendingValues :
                   now - cmd.createdAt = CommandTimeout => cmd \in PendingValues' ]_vars

\* a tick that failed one command and left one of age commandTimeout in place
C9_Witness ==
    /\ lastOp.op = "sweep"
    /\ \E id \in DOMAIN promises : promises[id].error \in TimeoutErrors
    /\ \E cmd \in Held : now - cmd.createdAt = CommandTimeout

\* C10: while the sweeper is armed no command stays in either collection
\* later than one sweep period after its deadline createdAt + commandTimeout:
\* at that instant the tick that fails it is due, and after any tick every
\* command left is within its deadline.
C10_FailedWithinOnePeriod ==
    timeoutInterval =>
        \A cmd \in Held :
            /\ now - cmd.createdAt <= CommandTimeout + SweepPeriod
            /\ now - cmd.createdAt = CommandTimeout + SweepPeriod => nextSweep = now
            /\ lastOp.op = "sweep" => now - cmd.createdAt <= CommandTimeout

\* a delivered command exactly one sweep period past its deadline, about to
\* be failed
C10_Witness ==
    /\ timeoutInterval
    /\ \E cmd \in PendingValues :
           now - cmd.createdAt = CommandTimeout + SweepPeriod

\* C11: the timeout error tells where the command was when the tick failed
\* it: the undelivered error goes only to commands dequeue never returned, the
\* unanswered error only to commands dequeue had returned.
C11_TimeoutErrorTellsLocation ==
    \A id \in DOMAIN promises :
        /\ promises[id].error = ErrUndelivered => id \notin Range(delivered)
        /\ promises[id].error = ErrUnanswered => id \in Range(delivered)

\* one command timed out waiting and another timed out after delivery
C11_Witness ==
    \E a, b \in DOMAIN promises :
        /\ promises[a].error = ErrUndelivered
        /\ promises[b].error = ErrUnanswered

\* C12: at a sweep tick every command of the waiting queue whose age strictly
\* exceeds commandTimeout is removed and rejected with the undelivered error,
\* whether or not the heartbeat has lapsed (heartbeatTimeout < commandTimeout,
\* as in the scenario 30000 / 10000 / tick at 30001).
C12_UndeliveredTimeout ==
    [][ lastOp'.op = "sweep" =>
            \A i \in 1..Len(waitingQueue) :
                now - waitingQueue[i].createdAt > CommandTimeout =>
                    /\ \A j \in 1..Len(waitingQueue') :
                           waitingQueue'[j].id # waitingQueue[i].id
                    /\ promises'[waitingQueue[i].promise].state = "rejected"
                    /\ promises'[waitingQueue[i].promise].error = ErrUndelivered ]_vars

\* the tick one unit past commandTimeout failed a command enqueued at 0 and
\* never delivered, long after the heartbeat lapsed
C12_Witness ==
    /\ lastOp.op = "sweep"
    /\ now = CommandTimeout + 1
    /\ connectionState.connected
    /\ ~IsConnected
    /\ \E id \in DOMAIN promises : promises[id].error = ErrUndelivered

\* C13: shutdown rejects every command of the waiting queue and of the pending
\* map with the shutting-down error, leaves both empty and clears the timer;
\* once the timer is cleared it stays cleared and no sweep tick runs.
C13_Shutdown ==
    [][ /\ lastOp'.op = "shutdown" =>
              /\ \A cmd \in Held :
                     /\ promises'[cmd.promise].state = "rejected"
                     /\ promises'[cmd.promise].error = ErrShutdown
              /\ waitingQueue' = <<>>
              /\ DOMAIN pendingCommands' = {}
              /\ ~timeoutInterval'
        /\ ~timeoutInterval => (~timeoutInterval' /\ lastOp'.op # "sweep") ]_vars

\* shutdown with one undelivered and one delivered, unanswered command
C13_Witness ==
    /\ lastOp.op = "shutdown"
    /\ Len(delivered) = 1
    /\ \E a, b \in DOMAIN promises :
           /\ a # b
           /\ promises[a].error = ErrShutdown
           /\ promises[b].error = ErrShutdown

\* C14: no identifier is returned by dequeue twice, and a command dequeue has
\* returned is never back in the waiting queue, whatever happened to it since.
C14_DeliveredAtMostOnce ==
    /\ \A i, j \in 1..Len(delivered) : i # j => delivered[i] # delivered[j]
    /\ \A i \in 1..Len(delivered) : WaitingCount(delivered[i]) = 0

\* a poll that found nothing after two deliveries, one of which timed out and
\* one of which was answered with a failure
C14_Witness ==
    /\ lastOp.op = "dequeue"
    /\ ~lastOp.ok
    /\ Len(delivered) = 2
    /\ \E a, b \in DOMAIN promises :
           /\ promises[a].error = ErrUnanswered
           /\ promises[b].state = "fulfilled"
           /\ ~promises[b].result.success

\* C15: dequeue on an empty waiting queue returns null and changes nothing; on
\* a non-empty one it removes the head, stores that command in the pending map
\* under its identifier and returns exactly its id, type and params.
C15_Dequeue ==
    [][ lastOp'.op = "dequeue" =>
            IF waitingQueue = <<>>
            THEN /\ ~lastOp'.ok
                 /\ lastOp'.val = "null"
                 /\ lastOp'.view = NoView
                 /\ UNCHANGED <<waitingQueue, pendingCommands, promises,
                                connectionState, timeoutInterval, delivered>>
            ELSE /\ lastOp'.ok
                 /\ waitingQueue' = Tail(waitingQueue)
                 /\ DOMAIN pendingCommands' =
                        DOMAIN pendingCommands \cup {Head(waitingQueue).id}
                 /\ pendingCommands'[Head(waitingQueue).id] = Head(waitingQueue)
                 /\ \A k \in DOMAIN pendingCommands :
                        k # Head(waitingQueue).id =>
                            pendingCommands'[k] = pendingCommands[k]
                 /\ DOMAIN lastOp'.view = {"id", "type", "params"}
                 /\ lastOp'.view.id = Head(waitingQueue).id
                 /\ lastOp'.view.type = Head(waitingQueue).type
                 /\ lastOp'.view.params = Head(waitingQueue).params
                 /\ UNCHANGED <<promises, connectionState, timeoutInterval>> ]_vars

\* a dequeue that took the head of a queue of two
C15_Witness ==
    /\ lastOp.op = "dequeue"
    /\ lastOp.ok
    /\ lastOp.view.id = lastOp.id
    /\ lastOp.id \in DOMAIN pendingCommands
    /\ Len(waitingQueue) = 1
    /\ waitingQueue[1].id > lastOp.id

\* C16: isConnected() is false until the first heartbeat, and only a heartbeat
\* call turns it from false to true.
C16_OnlyHeartbeatConnects ==
    /\ ~IsConnected
    /\ [][ /\ hbCalledAt' = -1 => ~IsConnected'
           /\ (~IsConnected /\ IsConnected') => lastOp'.op = "heartbeat" ]_vars

\* a heartbeat that reconnected a broker whose earlier heartbeat had lapsed
C16_Witness ==
    /\ lastOp.op = "heartbeat"
    /\ ~lastOp.hb.before.connected
    /\ lastOp.hb.before.pluginVersion # Undefined
    /\ IsConnected

\* C17: enqueue while isConnected() is true appends one command with a fresh
\* identifier, stamped with the current time, at the tail of the waiting
\* queue, leaves the earlier entries, the pending map and the other promises
\* as they were, and returns a promise that is still pending.
C17_EnqueueConnected ==
    [][ (lastOp'.op = "enqueue" /\ IsConnected) =>
            /\ lastOp'.ok
            /\ Len(waitingQueue') = Len(waitingQueue) + 1
            /\ SubSeq(waitingQueue', 1, Len(waitingQueue)) = waitingQueue
            /\ waitingQueue'[Len(waitingQueue')].id = lastOp'.id
            /\ waitingQueue'[Len(waitingQueue')].createdAt = now
            /\ lastOp'.id \notin DOMAIN promises
            /\ \A cmd \in Held : cmd.id # lastOp'.id
            /\ pendingCommands' = pendingCommands
            /\ DOMAIN promises' = DOMAIN promises \cup {lastOp'.id}
            /\ promises'[waitingQueue'[Len(waitingQueue')].promise] = NewPromise
            /\ \A other \in DOMAIN promises : promises'[other] = promises[other]
            /\ UNCHANGED <<now, connectionState, timeoutInterval>> ]_vars

\* an accepted enqueue behind a command that was already waiting
C17_Witness ==
    /\ lastOp.op = "enqueue"
    /\ lastOp.ok
    /\ Len(waitingQueue) = 2
    /\ waitingQueue[2].id = lastOp.id
    /\ waitingQueue[1].createdAt < waitingQueue[2].createdAt

\* C18: heartbeat replaces the whole liveness state by connected = true,
\* lastHeartbeat = now and exactly the two arguments of this call, undefined
\* ones included: nothing of the earlier state survives.
C18_HeartbeatOverwrites ==
    [][ lastOp'.op = "heartbeat" =>
            connectionState' =
                [connected |-> TRUE, lastHeartbeat |-> now,
                 pluginVersion |-> lastOp'.hb.pluginVersion,
                 studioSessionId |-> lastOp'.hb.studioSessionId] ]_vars

\* a heartbeat without identifiers after one that had supplied them
C18_Witness ==
    /\ lastOp.op = "heartbeat"
    /\ lastOp.hb.pluginVersion = Undefined
    /\ lastOp.hb.studioSessionId = Undefined
    /\ lastOp.hb.before.pluginVersion # Undefined
    /\ lastOp.hb.before.studioSessionId # Undefined
    /\ connectionState.pluginVersion = Undefined
    /\ connectionState.studioSessionId = Undefined

\* C19: once shutdown has cleared the timer every enqueue fails as not
\* connected, so the waiting queue stays empty.
C19_NoEnqueueAfterShutdown ==
    ~timeoutInterval =>
        /\ waitingQueue = <<>>
        /\ lastOp.op = "enqueue" => (~lastOp.ok /\ lastOp.val = ErrNotConnected)

\* C20: the first of result, timeout and shutdown decides: once a promise is
\* settled no later step changes its outcome or calls its handles again, and
\* a resolve carrying its identifier returns false.
C20_FirstEventWins ==
    [][ \A id \in DOMAIN promises :
            promises[id].state # "pending" =>
                /\ promises'[id] = promises[id]
                /\ (lastOp'.op = "resolve" /\ lastOp'.id = id) => ~lastOp'.ok ]_vars

\* both orders: shutdown came after a command had been answered, and after
\* another had been failed by a sweep tick following its delivery
C20_Witness ==
    /\ lastOp.op = "shutdown"
    /\ \E a, b \in DOMAIN promises :
           /\ promises[a].state = "fulfilled"
           /\ promises[b].error = ErrUnanswered

\* C21: results may come back in any order: resolve with the identifier of
\* any command of the pending map returns true, whichever other commands are
\* pending and in whatever order they were delivered, and it leaves every
\* other pending command and the whole waiting queue as they were.
C21_ResolveAnyOrder ==
    [][ (lastOp'.op = "resolve" /\ lastOp'.id \in DOMAIN pendingCommands) =>
            /\ lastOp'.ok
            /\ DOMAIN pendingCommands' = DOMAIN pendingCommands \ {lastOp'.id}
            /\ \A k \in DOMAIN pendingCommands' :
                   pendingCommands'[k] = pendingCommands[k]
            /\ waitingQueue' = waitingQueue ]_vars

\* the command delivered second was answered first, the one delivered first
\* is still pending
C21_Witness ==
    /\ lastOp.op = "resolve"
    /\ lastOp.ok
    /\ Len(delivered) = 2
    /\ lastOp.id = delivered[2]
    /\ promises[lastOp.id].state = "fulfilled"
    /\ delivered[1] \in DOMAIN pendingCommands
    /\ promises[delivered[1]].state = "pending"

\* C22: the stored liveness record (connected flag, lastHeartbeat, plugin
\* version, session id) is written by heartbeat only: enqueue, dequeue,
\* resolve, sweep ticks, shutdown, getStats, getConnectionState, isConnected
\* and the passing of time leave it unchanged.
C22_OnlyHeartbeatWrites ==
    [][ lastOp'.op # "heartbeat" => connectionState' = connectionState ]_vars

\* after shutdown and after the heartbeat has lapsed getConnectionState
\* reports connected = false while the stored flag is still true
C22_Witness ==
    /\ lastOp.op = "getConnectionState"
    /\ ~lastOp.conn.connected
    /\ connectionState.connected
    /\ connectionState.lastHeartbeat = hbCalledAt
    /\ ~timeoutInterval

\* C23: liveness is recomputed at every check: the connected value returned
\* by getStats() and by getConnectionState() and the admission decision of
\* enqueue all equal isConnected() at the instant of the call, while the
\* stored connected flag stays true once a heartbeat has set it.
C23_LivenessRecomputed ==
    /\ lastOp.op = "getStats" => lastOp.stats.connected = IsConnected
    /\ lastOp.op = "getConnectionState" => lastOp.conn.connected = IsConnected
    /\ lastOp.op = "enqueue" => lastOp.ok = IsConnected
    /\ hbCalledAt >= 0 => connectionState.connected

\* getStats() reported connected = false after the heartbeat had lapsed, the
\* stored flag being true
C23_Witness ==
    /\ lastOp.op = "getStats"
    /\ ~lastOp.stats.connected
    /\ connectionState.connected
    /\ now - connectionState.lastHeartbeat >= HeartbeatTimeout

\* C24: GET /poll answers 204 without a body when dequeue returned null and
\* 200 with the returned view as body otherwise; POST /result answers 200
\* when resolve returned true and 404 when it returned false; a result body
\* without id is answered 400, resolve is not called and no state of the
\* broker changes.
C24_TransportMapsOutcomes ==
    [][ /\ lastOp'.op = "dequeue" =>
              IF lastOp'.ok
              THEN /\ lastOp'.http.status = 200
                   /\ lastOp'.http.body = {lastOp'.view}
                   /\ lastOp'.view.id = Head(waitingQueue).id
              ELSE /\ lastOp'.http.status = 204
                   /\ lastOp'.http.body = {}
        /\ lastOp'.op = "resolve" =>
              /\ lastOp'.arg.id # BodyWithoutId.id
              /\ lastOp'.ok => lastOp'.http.status = 200
              /\ ~lastOp'.ok => lastOp'.http.status = 404
        /\ lastOp'.op = "POST /result" =>
              /\ lastOp'.arg.id = BodyWithoutId.id
              /\ lastOp'.http.status = 400
              /\ UNCHANGED <<now, waitingQueue, pendingCommands, connectionState,
                             timeoutInterval, nextSweep, nextId, promises,
                             delivered, hbCalledAt>> ]_vars

\* a result that arrived after its command had timed out was answered 404
C24_Witness ==
    /\ lastOp.op = "resolve"
    /\ ~lastOp.ok
    /\ lastOp.http.status = 404
    /\ lastOp.id \in DOMAIN promises
    /\ promises[lastOp.id].error = ErrUnanswered

\* the text of the only item of a tool result
TextOf(response) == response.content[1].text

C26_ClockNotResetByDelivery ==
    [][ /\ (lastOp'.op = "enqueue" /\ lastOp'.ok) =>
               waitingQueue'[Len(waitingQueue')].createdAt = now
        /\ \A cmd \in Held : \A kept \in Held' :
               kept.id = cmd.id => kept.createdAt = cmd.createdAt
        /\ lastOp'.op = "sweep" =>
               \A cmd \in PendingValues :
                   now - cmd.createdAt > CommandTimeout =>
                       /\ cmd.id \notin DOMAIN pendingCommands'
                       /\ promises'[cmd.promise].state = "rejected"
                       /\ promises'[cmd.promise].error = ErrUnanswered
        /\ timeoutInterval' =>
               \A cmd \in Held' :
                   now' - cmd.createdAt <= CommandTimeout + SweepPeriod ]_vars

\* The tick at commandTimeout + 1 + one sweep period failed a command as
\* unanswered.  An earlier command had timed out undelivered, which no tick
\* before commandTimeout + 1 can do, and until then it stood in front of this
\* one in the queue: this one was delivered at or after that tick and so was
\* failed after at most one sweep period, less than commandTimeout, in the
\* pending map.
C26_Witness ==
    /\ SweepPeriod < CommandTimeout
    /\ lastOp.op = "sweep"
    /\ now = CommandTimeout + 1 + SweepPeriod
    /\ \E y, x \in DOMAIN promises :
           /\ y < x
           /\ promises[y].error = ErrUndelivered
           /\ promises[x].error = ErrUnanswered

\* C27: liveness gates admission only: dequeue and resolve act the same
\* whether or not isConnected() holds, so after the heartbeat has lapsed a
\* waiting command is still delivered and a pending command is still
\* completed by resolve, which returns true.
C27_LivenessGatesOnlyAdmission ==
    [][ ~IsConnected =>
            /\ (lastOp'.op = "dequeue" /\ waitingQueue # <<>>) =>
                   /\ lastOp'.ok
                   /\ lastOp'.id = Head(waitingQueue).id
                   /\ lastOp'.id \in DOMAIN pendingCommands'
            /\ (lastOp'.op = "resolve" /\ lastOp'.id \in DOMAIN pendingCommands) =>
                   /\ lastOp'.ok
                   /\ promises'[pendingCommands[lastOp'.id].promise].state = "fulfilled"
                   /\ promises'[pendingCommands[lastOp'.id].promise].result = lastOp'.arg
      ]_vars

\* A result completed a command after the heartbeat had lapsed.  The command
\* was also delivered after the lapse: an earlier command stood in front of
\* it until a tick failed that one as undelivered, at commandTimeout + 1 at
\* the earliest, and the latest heartbeat had lapsed by then.
C27_Witness ==
    /\ lastOp.op = "resolve"
    /\ lastOp.ok
    /\ promises[lastOp.id].state = "fulfilled"
    /\ hbCalledAt >= 0
    /\ hbCalledAt + HeartbeatTimeout <= CommandTimeout + 1
    /\ ~IsConnected
    /\ \E y \in DOMAIN promises :
           /\ y < lastOp.id
           /\ promises[y].error = ErrUndelivered

\* C28: resolve matches delivered commands only: with the identifier of a
\* command that is still in the waiting queue it returns false, calls no
\* handle, and leaves the command in the waiting queue at its position, to be
\* delivered by a later dequeue.
C28_ResolveIgnoresWaiting ==
    [][ (/\ lastOp'.op = "resolve"
         /\ \E i \in 1..Len(waitingQueue) : waitingQueue[i].id = lastOp'.id) =>
            /\ ~lastOp'.ok
            /\ promises' = promises
            /\ waitingQueue' = waitingQueue
            /\ pendingCommands' = pendingCommands ]_vars

\* a result for the second of two waiting commands was refused; the command
\* is still second in the queue and its promise is pending
C28_Witness ==
    /\ lastOp.op = "resolve"
    /\ ~lastOp.ok
    /\ Len(waitingQueue) = 2
    /\ waitingQueue[2].id = lastOp.id
    /\ promises[lastOp.id].state = "pending"

\* C29: a sweep tick removes expired commands only: every command of either
\* collection whose age does not exceed commandTimeout is in the same
\* collection after the tick, its promise untouched, and the waiting commands
\* that stay keep their relative order.
C29_SweepKeepsUnexpired ==
    [][ lastOp'.op = "sweep" =>
            /\ \A cmd \in PendingValues :
                   now - cmd.createdAt <= CommandTimeout =>
                       /\ cmd.id \in DOMAIN pendingCommands'
                       /\ pendingCommands'[cmd.id] = cmd
                       /\ promises'[cmd.promise] = promises[cmd.promise]
            /\ \A i \in 1..Len(waitingQueue) :
                   now - waitingQueue[i].createdAt <= CommandTimeout =>
                       /\ \E k \in 1..Len(waitingQueue') :
                              waitingQueue'[k] = waitingQueue[i]
                       /\ promises'[waitingQueue[i].promise] =
                              promises[waitingQueue[i].promise]
            /\ \A i, j \in 1..Len(waitingQueue) :
                   (/\ i < j
                    /\ now - waitingQueue[i].createdAt <= CommandTimeout
                    /\ now - waitingQueue[j].createdAt <= CommandTimeout) =>
                       \E k, l \in 1..Len(waitingQueue') :
                           /\ k < l
                           /\ waitingQueue'[k] = waitingQueue[i]
                           /\ waitingQueue'[l] = waitingQueue[j] ]_vars

\* the first tick that can fail anything failed a delivered command and left
\* a younger one waiting
C29_Witness ==
    /\ lastOp.op = "sweep"
    /\ now = CommandTimeout + 1
    /\ \E id \in DOMAIN promises : promises[id].error = ErrUnanswered
    /\ Len(waitingQueue) = 1
    /\ now - waitingQueue[1].createdAt <= CommandTimeout
    /\ promises[waitingQueue[1].promise].state = "pending"

\* C30: getStats() counts the commands enqueue accepted that are not yet
\* settled: waitingCount those dequeue has not returned, pendingCount those it
\* has, so that their sum is the number of unsettled commands.
C30_StatsCountUnsettled ==
    lastOp.op = "getStats" =>
        LET unsettled == { id \in DOMAIN promises : promises[id].calls = 0 }
        IN  /\ lastOp.stats.waitingCount + lastOp.stats.pendingCount =
                   Cardinality(unsettled)
            /\ lastOp.stats.waitingCount =
                   Cardinality({ id \in unsettled : id \notin Range(delivered) })
            /\ lastOp.stats.pendingCount =
                   Cardinality({ id \in unsettled : id \in Range(delivered) })

\* getStats() with one command waiting, after another had been delivered and
\* settled
C30_Witness ==
    /\ lastOp.op = "getStats"
    /\ lastOp.stats.waitingCount = 1
    /\ lastOp.stats.pendingCount = 0
    /\ Len(delivered) = 1
    /\ Settled(delivered[1])

\* C31: shutdown is idempotent: once shutdown has cleared the timer and
\* emptied both collections they stay so until enqueue accepts a command, and
\* a further shutdown() in that situation calls no completion handle, leaves
\* both collections empty and the timer cleared, and changes nothing else.
C31_ShutdownIdempotent ==
    [][ (~timeoutInterval /\ Held = {}) =>
            /\ ~(lastOp'.op = "enqueue" /\ lastOp'.ok) =>
                   /\ Held' = {}
                   /\ ~timeoutInterval'
            /\ lastOp'.op = "shutdown" =>
                   /\ promises' = promises
                   /\ waitingQueue' = <<>>
                   /\ DOMAIN pendingCommands' = {}
                   /\ ~timeoutInterval'
                   /\ lastOp'.found = [armed |-> FALSE, held |-> 0]
                   /\ UNCHANGED <<now, connectionState, nextId, delivered,
                                  nextSweep>> ]_vars

\* a shutdown that found the timer already cleared and nothing held, after an
\* earlier shutdown had failed two commands
C31_Witness ==
    /\ lastOp.op = "shutdown"
    /\ ~lastOp.found.armed
    /\ lastOp.found.held = 0
    /\ ~timeoutInterval
    /\ Held = {}
    /\ \E a, b \in DOMAIN promises :
           /\ a # b
           /\ promises[a].error = ErrShutdown
           /\ promises[a].calls = 1
           /\ promises[b].error = ErrShutdown
           /\ promises[b].calls = 1

====
